---------------------------- MODULE Spec2Model ----------------------------
(***************************************************************************)
(* A model of absplots (src/absplots.py): matplotlib figures whose margins, *)
(* spacings and axes rectangles are given in inches or millimeters.         *)
(*                                                                         *)
(* Numbers.  The program computes with IEEE doubles (numpy.float64 as soon  *)
(* as a figure dimension is involved).  The model computes with exact      *)
(* rationals [n, d], d > 0, in lowest terms, extended with the non-finite   *)
(* values a numpy division by zero produces: Inf = 1/0, -Inf = -1/0 and     *)
(* NaN = 0/0.  Rounding to 53 bits is not modelled: every equality below is *)
(* an equality of the exact values the floating-point results approximate. *)
(***************************************************************************)
EXTENDS Integers, Sequences, FiniteSets, TLC

\* ------------------------------------------------------------------------
\* Arithmetic
\* ------------------------------------------------------------------------

Abs(x) == IF x < 0 THEN -x ELSE x

Sgn(x) == IF x < 0 THEN -1 ELSE IF x = 0 THEN 0 ELSE 1

RECURSIVE GCD(_, _)
GCD(a, b) == IF b = 0 THEN a ELSE GCD(b, a % b)

\* gcd used for cancelling; 1 when both arguments are 0.
GCD1(a, b) == LET g == GCD(Abs(a), Abs(b)) IN IF g = 0 THEN 1 ELSE g

\* The number n/d in lowest terms with d >= 0; d = 0 gives Inf, -Inf or NaN.
Norm(n, d) ==
    IF d = 0 THEN [n |-> Sgn(n), d |-> 0]
    ELSE LET g == GCD1(n, d)
             s == Sgn(d)
         IN  [n |-> s * (n \div g), d |-> s * (d \div g)]

Rat(n, d) == Norm(n, d)

Num(n) == [n |-> n, d |-> 1]

Zero == Num(0)

One == Num(1)

NaN == [n |-> 0, d |-> 0]

IsFinite(a) == a.d # 0

RNeg(a) == [n |-> -a.n, d |-> a.d]

\* a + b; Inf + Inf = Inf, Inf - Inf = NaN.
RAdd(a, b) ==
    IF a.d = 0 /\ b.d = 0
    THEN (IF a.n = b.n THEN a ELSE NaN)
    ELSE LET g == GCD1(a.d, b.d)
         IN  Norm(a.n * (b.d \div g) + b.n * (a.d \div g), (a.d \div g) * b.d)

\* a - b
RSub(a, b) == RAdd(a, RNeg(b))

\* a * b, cancelling across before multiplying.
RMul(a, b) ==
    LET g1 == GCD1(a.n, b.d)
        g2 == GCD1(b.n, a.d)
    IN  Norm((a.n \div g1) * (b.n \div g2), (a.d \div g2) * (b.d \div g1))

\* x ** (-1) on numpy.float64: 0 ** (-1) is inf (a division by zero), inf ** (-1) is 0.
PowNeg1(a) == Norm(a.d, a.n)

\* a / b
RDiv(a, b) == RMul(a, PowNeg1(b))

\* ------------------------------------------------------------------------
\* Bounds and inputs
\* ------------------------------------------------------------------------

\* nrows and ncols range over 1..MaxGrid.
MaxGrid == 2

\* A mapping object is converted in place at most MaxCalls times.
MaxCalls == 1

\* A mapping is converted only while its numerators and denominators are at
\* most MaxMagnitude, which keeps the arithmetic within TLC's 32-bit integers.
MaxMagnitude == 12

Grid == 1..MaxGrid

\* mm = 1/25.4 = 5/127
mm == Rat(5, 127)

\* 25.4 = 127/5
MmPerInch == Rat(127, 5)

\* A size or a rectangle of whole numbers.
Nums(t) == [i \in DOMAIN t |-> Num(t[i])]

\* figsize=None
NoSize == <<>>

\* The library's default figure size, 6.4 x 4.8 inches.
DefaultSize == <<Rat(32, 5), Rat(24, 5)>>

\* The library's default subplot parameters (self.subplotpars).
subplotpars ==
    [left |-> Rat(1, 8), right |-> Rat(9, 10), bottom |-> Rat(11, 100), top |-> Rat(22, 25)]

\* Figure sizes given in inches and in millimeters.
FigSizesIn == {Nums(<<20, 10>>)}

FigSizesMm == {Nums(<<120, 80>>)}

MarginKeys == {"left", "right", "bottom", "top"}

SpaceKeys == {"wspace", "hspace"}

RatioKeys == {"width_ratios", "height_ratios"}

DimKeys == MarginKeys \cup SpaceKeys

\* The values a caller gives each key (inches or millimeters).
KeyValues(k) ==
    CASE k = "left" -> {Num(10)}
      [] k = "right" -> {Num(5)}
      [] k = "bottom" -> {Num(10)}
      [] k = "top" -> {Num(5)}
      [] k = "wspace" -> {Zero, Num(5)}
      [] k = "hspace" -> {Zero, Num(5)}
      [] k = "width_ratios" -> {[ratios |-> <<3, 4>>]}
      [] k = "height_ratios" -> {[ratios |-> <<1, 2>>]}

\* Every mapping over a set of keys, each key with one of its values.
MapsOver(S) == {m \in [S -> UNION {KeyValues(k) : k \in S}] : \A k \in S : m[k] \in KeyValues(k)}

\* The mappings a caller builds: any subset of the dimension keys, and some
\* of them with the ratio keys.
KwInputs ==
    UNION ({MapsOver(S) : S \in SUBSET DimKeys}
           \cup {MapsOver(S \cup R) : S \in {{}, {"left", "hspace"}, DimKeys},
                                      R \in (SUBSET RatioKeys) \ {{}}})

\* A few mappings for the runs that combine every operation.
KwFew ==
    UNION {MapsOver(S) :
        S \in {{}, {"left", "right", "wspace"}, {"top", "hspace", "width_ratios"}}}

\* Absolute rectangles [left, bottom, width, height].
Rects == {Nums(<<10, 10, 50, 20>>), Nums(<<1, 2, 3, 4>>)}

\* Python values that are None or a dict.
None == [none |-> TRUE, map |-> <<>>]

Dict(m) == [none |-> FALSE, map |-> m]

\* ------------------------------------------------------------------------
\* AbsFigure: the conversions
\* ------------------------------------------------------------------------

\* gridspec_kw.get(k, default)
Get(m, k, default) == IF k \in DOMAIN m THEN m[k] ELSE default

\* A faulty variant: the right margin measured from the left edge (right / figw).
ConvertMargins_rightFromLeftEdge(figw, figh, m) ==
    [k \in DOMAIN m |->
        IF k = "left" THEN RDiv(m[k], figw)
        ELSE IF k = "right" THEN RDiv(m[k], figw)
        ELSE IF k = "bottom" THEN RDiv(m[k], figh)
        ELSE IF k = "top" THEN RSub(One, RDiv(m[k], figh))
        ELSE m[k]]

\* Lines 29-36 of _process_kw_inches: the outer margins to ratios.
ConvertMargins(figw, figh, m) ==
    [k \in DOMAIN m |->
        IF k = "left" THEN RDiv(m[k], figw)
        ELSE IF k = "right" THEN RSub(One, RDiv(m[k], figw))
        ELSE IF k = "bottom" THEN RDiv(m[k], figh)
        ELSE IF k = "top" THEN RSub(One, RDiv(m[k], figh))
        ELSE m[k]]

\* A faulty variant: the guard without the test for 0.
SpaceGiven_presentOnly(m, k) == k \in DOMAIN m

\* The guard of lines 39 and 44: the key is present and its value is not 0.
SpaceGiven(m, k) == k \in DOMAIN m /\ m[k] # Zero

\* A faulty variant: the formula without its "- 1".
SpaceRatio_noMinusOne(figdim, lo, hi, space, n) ==
    PowNeg1(RDiv(RAdd(RDiv(RMul(figdim, RSub(hi, lo)), space), One), Num(n)))

\* The right-hand side of lines 42-43 and 47-48:
\* ((figdim*(hi-lo)/space + 1)/n - 1) ** (-1)
SpaceRatio(figdim, lo, hi, space, n) ==
    PowNeg1(RSub(RDiv(RAdd(RDiv(RMul(figdim, RSub(hi, lo)), space), One), Num(n)), One))

\* A faulty variant: wspace from the library's default margins, whatever was given.
ConvertWspace_defaultMargins(figw, ncols, m) ==
    IF "wspace" \in DOMAIN m /\ m["wspace"] # Zero
    THEN [m EXCEPT !["wspace"] =
             PowNeg1(RSub(RDiv(RAdd(RDiv(RMul(figw, RSub(subplotpars.right, subplotpars.left)),
                                         m["wspace"]), One), Num(ncols)), One))]
    ELSE m

\* Lines 39-43: wspace from the margins already in the mapping, or the defaults.
ConvertWspace(figw, ncols, m) ==
    IF SpaceGiven(m, "wspace")
    THEN LET left == Get(m, "left", subplotpars.left)
             right == Get(m, "right", subplotpars.right)
         IN  [m EXCEPT !["wspace"] = SpaceRatio(figw, left, right, m["wspace"], ncols)]
    ELSE m

\* Lines 44-48: hspace likewise.
ConvertHspace(figh, nrows, m) ==
    IF SpaceGiven(m, "hspace")
    THEN LET bottom == Get(m, "bottom", subplotpars.bottom)
             top == Get(m, "top", subplotpars.top)
         IN  [m EXCEPT !["hspace"] = SpaceRatio(figh, bottom, top, m["hspace"], nrows)]
    ELSE m

\* AbsFigure._process_kw_inches on a figure of size size: the mapping it
\* returns, which is the mapping object it was given, updated in place.
process_kw_inches(size, nrows, ncols, gridspec_kw) ==
    IF gridspec_kw.none THEN gridspec_kw
    ELSE LET figw == size[1]
             figh == size[2]
             m1 == ConvertMargins(figw, figh, gridspec_kw.map)
             m2 == ConvertWspace(figw, ncols, m1)
             m3 == ConvertHspace(figh, nrows, m2)
         IN  Dict(m3)

\* A faulty variant: only the margins are scaled, the spacings are left in millimeters.
ScaleMm_marginsOnly(gridspec_kw) ==
    IF gridspec_kw.none THEN gridspec_kw
    ELSE Dict([k \in DOMAIN gridspec_kw.map |->
                 IF k \in {"left", "right", "bottom", "top"}
                 THEN RMul(gridspec_kw.map[k], Rat(5, 127)) ELSE gridspec_kw.map[k]])

\* A faulty variant: a dimension that is absent is read as 0 and written back.
ScaleMm_fillsDefaults(gridspec_kw) ==
    IF gridspec_kw.none THEN gridspec_kw
    ELSE Dict([k \in DOMAIN gridspec_kw.map \cup
                     {"left", "right", "bottom", "top", "wspace", "hspace"} |->
                 IF k \notin DOMAIN gridspec_kw.map THEN [n |-> 0, d |-> 1]
                 ELSE IF k \in {"left", "right", "bottom", "top", "wspace", "hspace"}
                 THEN RMul(gridspec_kw.map[k], Rat(5, 127)) ELSE gridspec_kw.map[k]])

\* Lines 57-61 of _process_kw_mm: every dimension present, times mm.
ScaleMm(gridspec_kw) ==
    IF gridspec_kw.none THEN gridspec_kw
    ELSE Dict([k \in DOMAIN gridspec_kw.map |->
                 IF k \in DimKeys THEN RMul(gridspec_kw.map[k], mm) ELSE gridspec_kw.map[k]])

\* AbsFigure._process_kw_mm
process_kw_mm(size, nrows, ncols, gridspec_kw) ==
    process_kw_inches(size, nrows, ncols, ScaleMm(gridspec_kw))

\* Whether the spacing formula was evaluated for key k in _process_kw_inches
\* called with gridspec_kw (the margins never touch the spacing keys).
Evaluated(gridspec_kw, k) == ~gridspec_kw.none /\ SpaceGiven(gridspec_kw.map, k)

\* Line 88 of add_axes_inches: the rectangle handed to add_axes.
RectToFrac(size, rect) ==
    <<RDiv(rect[1], size[1]), RDiv(rect[2], size[2]),
      RDiv(rect[3], size[1]), RDiv(rect[4], size[2])>>

\* Line 109 of add_axes_mm: [x/25.4 for x in rect]
RectMmToInches(rect) == [i \in DOMAIN rect |-> RDiv(rect[i], MmPerInch)]

\* AbsFigure.get_size_mm: get_size_inches()*25.4
size_mm(size) == [i \in DOMAIN size |-> RMul(size[i], MmPerInch)]

\* The library's Bbox of an axes placed at the fractional rectangle frac.
Bbox(frac) ==
    [x0 |-> frac[1], y0 |-> frac[2], x1 |-> RAdd(frac[1], frac[3]), y1 |-> RAdd(frac[2], frac[4])]

\* A faulty variant: the far corner taken for the width and height.
PositionIn_corner(dims, pos) ==
    <<RMul(pos.x0, dims[1]), RMul(pos.y0, dims[2]),
      RMul(pos.x1, dims[1]), RMul(pos.y1, dims[2])>>

\* Lines 192-193 and 213-214: the position in the unit of (figw, figh).
PositionIn(dims, pos) ==
    <<RMul(pos.x0, dims[1]), RMul(pos.y0, dims[2]),
      RMul(RSub(pos.x1, pos.x0), dims[1]), RMul(RSub(pos.y1, pos.y0), dims[2])>>

\* figure(**kwargs): the size of the figure created.
FigureSize(figsize) == IF figsize = NoSize THEN DefaultSize ELSE figsize

\* Lines 327-330 of figure_mm: the figsize handed to figure().
FigsizeMmToInches(figsize) ==
    IF figsize = NoSize THEN NoSize
    ELSE <<RMul(figsize[1], mm), RMul(figsize[2], mm)>>

\* A faulty variant: two of the subplot keys forgotten.
spl_keys_short == {"sharex", "sharey", "gridspec_kw"}

\* Lines 367 and 404.
spl_keys == {"sharex", "sharey", "squeeze", "subplot_kw", "gridspec_kw"}

\* Lines 368 and 405.
SplKw(kwargs) == [key \in {k \in DOMAIN kwargs : k \in spl_keys} |-> kwargs[key]]

\* Lines 369 and 406.
FigKw(kwargs) == [key \in {k \in DOMAIN kwargs : k \notin spl_keys} |-> kwargs[key]]

\* ------------------------------------------------------------------------
\* State
\* ------------------------------------------------------------------------

VARIABLES
    figsize,    \* the current figure's size in inches (its bbox_inches)
    ax,         \* the current figure's axes: its fractional position, with the
                \* absolute rectangle (inches) and figure size it was made from
    kw,         \* the caller's gridspec_kw object: None or a dict
    kw0,        \* what the caller put in that object when building it
    calls,      \* how many times that object was converted in place
    out         \* the last call: its arguments and what it handed the library

vars == <<figsize, ax, kw, kw0, calls, out>>

NoAxes == [has |-> FALSE, frac |-> <<>>, rect |-> <<>>, size |-> <<>>]

Blank ==
    [op |-> "none", nrows |-> 0, ncols |-> 0, arg |-> None, handed |-> None,
     size |-> NoSize, evalw |-> FALSE, evalh |-> FALSE,
     rect |-> <<>>, frac |-> <<>>, pos |-> <<>>,
     kwargs |-> <<>>, spl_kw |-> <<>>, fig_kw |-> <<>>, figsize |-> NoSize]

\* The values of the caller's mapping are small enough to convert.
InRange(g) ==
    g.none \/ \A k \in DOMAIN g.map \cap DimKeys :
                 Abs(g.map[k].n) <= MaxMagnitude /\ g.map[k].d <= MaxMagnitude

\* A faulty variant: the size the figure had when its axes were made.
get_size_inches_cached == IF ax.has THEN ax.size ELSE figsize

\* self.get_size_inches(): the size of the figure at the time of the call.
get_size_inches == figsize

\* The record of a gridspec conversion by _process_kw_inches or _process_kw_mm.
Converted(op, size, nrows, ncols, arg, inches, handed) ==
    [Blank EXCEPT !.op = op, !.size = size, !.nrows = nrows, !.ncols = ncols,
                  !.arg = arg, !.handed = handed,
                  !.evalw = Evaluated(inches, "wspace"),
                  !.evalh = Evaluated(inches, "hspace")]

Init ==
    /\ figsize = DefaultSize
    /\ ax = NoAxes
    /\ kw = None
    /\ kw0 = None
    /\ calls = 0
    /\ out = [Blank EXCEPT !.op = "figure", !.size = DefaultSize]

\* ------------------------------------------------------------------------
\* Operations
\* ------------------------------------------------------------------------

\* figure(figsize=fs): a new current figure, without axes.
Figure(fs) ==
    /\ figsize' = FigureSize(fs)
    /\ ax' = NoAxes
    /\ out' = [Blank EXCEPT !.op = "figure", !.figsize = fs, !.size = FigureSize(fs)]
    /\ UNCHANGED <<kw, kw0, calls>>

\* figure_mm(figsize=fs)
FigureMm(fs) ==
    /\ figsize' = FigureSize(FigsizeMmToInches(fs))
    /\ ax' = NoAxes
    /\ out' = [Blank EXCEPT !.op = "figure_mm", !.figsize = fs,
                            !.size = FigureSize(FigsizeMmToInches(fs))]
    /\ UNCHANGED <<kw, kw0, calls>>

\* fig.set_size_inches(s), inherited from the library's Figure.
SetSizeInches(s) ==
    /\ s # figsize
    /\ figsize' = s
    /\ out' = [Blank EXCEPT !.op = "set_size_inches", !.size = s]
    /\ UNCHANGED <<ax, kw, kw0, calls>>

\* The caller, holding no mapping, builds a new gridspec_kw object.
NewKw(g) ==
    /\ kw.none
    /\ kw' = g
    /\ kw0' = g
    /\ calls' = 0
    /\ out' = [Blank EXCEPT !.op = "dict"]
    /\ UNCHANGED <<figsize, ax>>

\* The caller lets go of its gridspec_kw object: gridspec_kw=None from now on.
DropKw ==
    /\ ~kw.none
    /\ kw' = None
    /\ kw0' = None
    /\ calls' = 0
    /\ out' = [Blank EXCEPT !.op = "dict"]
    /\ UNCHANGED <<figsize, ax>>

\* fig.add_gridspec_inches(nrows, ncols, **kw): kwargs is a new dict.
AddGridspecInches(nrows, ncols) ==
    /\ ~kw.none
    /\ InRange(kw)
    /\ LET kwargs == Dict(kw.map)
           size == get_size_inches
       IN  out' = Converted("add_gridspec_inches", size, nrows, ncols, kwargs, kwargs,
                            process_kw_inches(size, nrows, ncols, kwargs))
    /\ UNCHANGED <<figsize, ax, kw, kw0, calls>>

\* fig.add_gridspec_mm(nrows, ncols, **kw)
AddGridspecMm(nrows, ncols) ==
    /\ ~kw.none
    /\ InRange(kw)
    /\ LET kwargs == Dict(kw.map)
           size == get_size_inches
       IN  out' = Converted("add_gridspec_mm", size, nrows, ncols, kwargs, ScaleMm(kwargs),
                            process_kw_mm(size, nrows, ncols, kwargs))
    /\ UNCHANGED <<figsize, ax, kw, kw0, calls>>

\* fig.subplots_inches(nrows, ncols, gridspec_kw=kw): kw is converted in place.
SubplotsInches(nrows, ncols) ==
    /\ calls < MaxCalls
    /\ InRange(kw)
    /\ LET size == get_size_inches
           res == process_kw_inches(size, nrows, ncols, kw)
       IN  /\ out' = Converted("subplots_inches", size, nrows, ncols, kw, kw, res)
           /\ kw' = res
    /\ calls' = IF kw.none THEN calls ELSE calls + 1
    /\ UNCHANGED <<figsize, ax, kw0>>

\* fig.subplots_mm(nrows, ncols, gridspec_kw=kw)
SubplotsMm(nrows, ncols) ==
    /\ calls < MaxCalls
    /\ InRange(kw)
    /\ LET size == get_size_inches
           res == process_kw_mm(size, nrows, ncols, kw)
       IN  /\ out' = Converted("subplots_mm", size, nrows, ncols, kw, ScaleMm(kw), res)
           /\ kw' = res
    /\ calls' = IF kw.none THEN calls ELSE calls + 1
    /\ UNCHANGED <<figsize, ax, kw0>>

\* fig.add_axes_inches(rect)
AddAxesInches(rect) ==
    /\ LET size == get_size_inches
           frac == RectToFrac(size, rect)
       IN  /\ ax' = [has |-> TRUE, frac |-> frac, rect |-> rect, size |-> size]
           /\ out' = [Blank EXCEPT !.op = "add_axes_inches", !.size = size,
                                   !.rect = rect, !.frac = frac]
    /\ UNCHANGED <<figsize, kw, kw0, calls>>

\* fig.add_axes_mm(rect)
AddAxesMm(rect) ==
    /\ LET size == get_size_inches
           inches == RectMmToInches(rect)
           frac == RectToFrac(size, inches)
       IN  /\ ax' = [has |-> TRUE, frac |-> frac, rect |-> inches, size |-> size]
           /\ out' = [Blank EXCEPT !.op = "add_axes_mm", !.size = size,
                                   !.rect = rect, !.frac = frac]
    /\ UNCHANGED <<figsize, kw, kw0, calls>>

\* fig.get_position_inches(ax)
GetPositionInches ==
    /\ ax.has
    /\ LET size == get_size_inches
       IN  out' = [Blank EXCEPT !.op = "get_position_inches", !.size = size,
                                !.frac = ax.frac,
                                !.pos = PositionIn(size, Bbox(ax.frac))]
    /\ UNCHANGED <<figsize, ax, kw, kw0, calls>>

\* fig.get_position_mm(ax)
GetPositionMm ==
    /\ ax.has
    /\ LET size == get_size_inches
       IN  out' = [Blank EXCEPT !.op = "get_position_mm", !.size = size,
                                !.frac = ax.frac,
                                !.pos = PositionIn(size_mm(size), Bbox(ax.frac))]
    /\ UNCHANGED <<figsize, ax, kw, kw0, calls>>

\* fig.get_size_mm()
GetSizeMm ==
    /\ LET size == get_size_inches
       IN  out' = [Blank EXCEPT !.op = "get_size_mm", !.size = size, !.pos = size_mm(size)]
    /\ UNCHANGED <<figsize, ax, kw, kw0, calls>>

\* The keyword arguments of a module-level call: figsize (unless NoSize),
\* gridspec_kw (the caller's object kw, when gk) and the keys in extras.
Kwargs(fs, gk, extras) ==
    [k \in extras \cup (IF gk THEN {"gridspec_kw"} ELSE {})
                  \cup (IF fs = NoSize THEN {} ELSE {"figsize"}) |->
        IF k = "figsize" THEN fs ELSE IF k = "gridspec_kw" THEN "kw" ELSE "True"]

\* The size of the figure fig.subplots_inches / subplots_mm runs on (lines
\* 372-373, 409-410): the figure just created.
SubplotsFigureSize(created) == created

\* subplots_inches(nrows, ncols, **kwargs)
ModSubplotsInches(nrows, ncols, kwargs) ==
    LET spl_kw == SplKw(kwargs)
        fig_kw == FigKw(kwargs)
        created == FigureSize(Get(fig_kw, "figsize", NoSize))
        size == SubplotsFigureSize(created)
        gridspec_kw == IF "gridspec_kw" \in DOMAIN spl_kw THEN kw ELSE None
        res == process_kw_inches(size, nrows, ncols, gridspec_kw)
    IN  /\ gridspec_kw.none \/ calls < MaxCalls
        /\ InRange(gridspec_kw)
        /\ figsize' = created
        /\ ax' = NoAxes
        /\ out' = [Converted("subplots_inches()", size, nrows, ncols,
                             gridspec_kw, gridspec_kw, res)
                     EXCEPT !.kwargs = kwargs, !.spl_kw = spl_kw, !.fig_kw = fig_kw,
                            !.figsize = Get(fig_kw, "figsize", NoSize)]
        /\ kw' = IF "gridspec_kw" \in DOMAIN spl_kw THEN res ELSE kw
        /\ calls' = IF gridspec_kw.none THEN calls ELSE calls + 1
        /\ UNCHANGED kw0

\* subplots_mm(nrows, ncols, **kwargs)
ModSubplotsMm(nrows, ncols, kwargs) ==
    LET spl_kw == SplKw(kwargs)
        fig_kw == FigKw(kwargs)
        created == FigureSize(FigsizeMmToInches(Get(fig_kw, "figsize", NoSize)))
        size == SubplotsFigureSize(created)
        gridspec_kw == IF "gridspec_kw" \in DOMAIN spl_kw THEN kw ELSE None
        res == process_kw_mm(size, nrows, ncols, gridspec_kw)
    IN  /\ gridspec_kw.none \/ calls < MaxCalls
        /\ InRange(gridspec_kw)
        /\ figsize' = created
        /\ ax' = NoAxes
        /\ out' = [Converted("subplots_mm()", size, nrows, ncols,
                             gridspec_kw, ScaleMm(gridspec_kw), res)
                     EXCEPT !.kwargs = kwargs, !.spl_kw = spl_kw, !.fig_kw = fig_kw,
                            !.figsize = Get(fig_kw, "figsize", NoSize)]
        /\ kw' = IF "gridspec_kw" \in DOMAIN spl_kw THEN res ELSE kw
        /\ calls' = IF gridspec_kw.none THEN calls ELSE calls + 1
        /\ UNCHANGED kw0

\* ------------------------------------------------------------------------
\* Specifications
\* ------------------------------------------------------------------------

\* The sizes a figure is resized to.
ResizeTo == FigSizesIn \cup {DefaultSize}

\* The keyword arguments given to a module-level call that sizes its figure fs.
ModKwargs(fs) ==
    {Kwargs(NoSize, FALSE, {}),
     Kwargs(fs, TRUE, {}),
     Kwargs(fs, FALSE, {"sharex", "left"}),
     Kwargs(NoSize, TRUE, {"sharex", "sharey", "squeeze", "subplot_kw", "dpi"})}

\* Figures and gridspec conversions, over every mapping of KwInputs.
Next ==
    \/ \E fs \in FigSizesIn \cup {NoSize} : Figure(fs)
    \/ \E fs \in FigSizesMm \cup {NoSize} : FigureMm(fs)
    \/ \E s \in ResizeTo : SetSizeInches(s)
    \/ \E m \in KwInputs : NewKw(Dict(m))
    \/ DropKw
    \/ \E nrows \in Grid, ncols \in Grid : AddGridspecInches(nrows, ncols)
    \/ \E nrows \in Grid, ncols \in Grid : AddGridspecMm(nrows, ncols)
    \/ \E nrows \in Grid, ncols \in Grid : SubplotsInches(nrows, ncols)
    \/ \E nrows \in Grid, ncols \in Grid : SubplotsMm(nrows, ncols)

Spec == Init /\ [][Next]_vars

\* Every operation, over the mappings of KwFew.
NextAll ==
    \/ \E fs \in FigSizesIn \cup {NoSize} : Figure(fs)
    \/ \E fs \in FigSizesMm \cup {NoSize} : FigureMm(fs)
    \/ \E s \in ResizeTo : SetSizeInches(s)
    \/ \E m \in KwFew : NewKw(Dict(m))
    \/ DropKw
    \/ \E nrows \in Grid, ncols \in Grid : AddGridspecInches(nrows, ncols)
    \/ \E nrows \in Grid, ncols \in Grid : AddGridspecMm(nrows, ncols)
    \/ \E nrows \in Grid, ncols \in Grid : SubplotsInches(nrows, ncols)
    \/ \E nrows \in Grid, ncols \in Grid : SubplotsMm(nrows, ncols)
    \/ \E rect \in Rects : AddAxesInches(rect)
    \/ \E rect \in Rects : AddAxesMm(rect)
    \/ GetPositionInches
    \/ GetPositionMm
    \/ GetSizeMm
    \/ \E nrows \in Grid, ncols \in Grid, fs \in FigSizesIn :
          \E kwargs \in ModKwargs(fs) : ModSubplotsInches(nrows, ncols, kwargs)
    \/ \E nrows \in Grid, ncols \in Grid, fs \in FigSizesMm :
          \E kwargs \in ModKwargs(fs) : ModSubplotsMm(nrows, ncols, kwargs)

SpecAll == Init /\ [][NextAll]_vars

\* ------------------------------------------------------------------------
\* Properties
\* ------------------------------------------------------------------------

InchKwOps == {"add_gridspec_inches", "subplots_inches", "subplots_inches()"}

MmKwOps == {"add_gridspec_mm", "subplots_mm", "subplots_mm()"}

KwOps == InchKwOps \cup MmKwOps

ModOps == {"subplots_inches()", "subplots_mm()"}

\* A conversion of a dict (not of None) was the last call.
ConvertedDict == out.op \in KwOps /\ ~out.arg.none

\* The value x of the last call's mapping, in inches.
InInches(x) == IF out.op \in MmKwOps THEN RDiv(x, MmPerInch) ELSE x

\* x/25.4 for every x of a size or rectangle.
Over254(t) == [i \in DOMAIN t |-> RDiv(t[i], MmPerInch)]

\* 25.4*x for every x of a size or rectangle.
Times254(t) == [i \in DOMAIN t |-> RMul(MmPerInch, t[i])]

\* The 120 x 80 mm figure of examples/gridspec.py, in inches.
Size120x80 == <<Rat(600, 127), Rat(400, 127)>>

\* C1: on a figure of size (W, H), every margin key given to an inch entry
\* point is handed to the library as left/W, 1 - right/W, bottom/H, 1 - top/H
\* (stated as left_frac*W = left, (1 - right_frac)*W = right, ...), and the
\* millimeter margins 10, 5, 10, 5 on the 120 x 80 mm figure become 10/120,
\* 1 - 5/120, 10/80 and 1 - 5/80.
C1_MarginConversion ==
    ConvertedDict =>
        LET a == out.arg.map
            h == out.handed.map
            W == out.size[1]
            H == out.size[2]
        IN  /\ out.op \in InchKwOps =>
                /\ "left" \in DOMAIN a => RMul(h["left"], W) = a["left"]
                /\ "right" \in DOMAIN a => RMul(RSub(One, h["right"]), W) = a["right"]
                /\ "bottom" \in DOMAIN a => RMul(h["bottom"], H) = a["bottom"]
                /\ "top" \in DOMAIN a => RMul(RSub(One, h["top"]), H) = a["top"]
            /\ (out.op \in MmKwOps /\ out.size = Size120x80) =>
                /\ ("left" \in DOMAIN a /\ a["left"] = Num(10)) => h["left"] = Rat(10, 120)
                /\ ("right" \in DOMAIN a /\ a["right"] = Num(5)) =>
                       h["right"] = RSub(One, Rat(5, 120))
                /\ ("bottom" \in DOMAIN a /\ a["bottom"] = Num(10)) => h["bottom"] = Rat(10, 80)
                /\ ("top" \in DOMAIN a /\ a["top"] = Num(5)) => h["top"] = RSub(One, Rat(5, 80))

\* C1's case: the four margins of examples/gridspec.py converted on its figure,
\* and all four margins converted by an inch entry point.
C1_Witness ==
    /\ out.op = "add_gridspec_mm"
    /\ out.size = Size120x80
    /\ MarginKeys \subseteq DOMAIN out.arg.map
    /\ \A k \in MarginKeys : out.arg.map[k] \in {Num(5), Num(10)}
    /\ out.handed.map["left"] = Rat(1, 12)
    /\ out.handed.map["top"] = Rat(15, 16)

\* The column width (row height) c that solves n*c + (n-1)*space = dim*(hi - lo).
CellSize(dim, lo, hi, space, n) ==
    RDiv(RSub(RMul(dim, RSub(hi, lo)), RMul(Num(n - 1), space)), Num(n))

\* The last call's column width (k = "wspace") or row height (k = "hspace"),
\* from the margins it handed the library, or the library's defaults.
CellOf(k) ==
    LET h == out.handed.map
        space == InInches(out.arg.map[k])
    IN  IF k = "wspace"
        THEN CellSize(out.size[1], Get(h, "left", subplotpars.left),
                      Get(h, "right", subplotpars.right), space, out.ncols)
        ELSE CellSize(out.size[2], Get(h, "bottom", subplotpars.bottom),
                      Get(h, "top", subplotpars.top), space, out.nrows)

\* A spacing key given with a finite, non-zero value.
NonZeroSpace(k) ==
    /\ ConvertedDict
    /\ k \in DOMAIN out.arg.map
    /\ IsFinite(out.arg.map[k])
    /\ out.arg.map[k] # Zero

\* C2: a non-zero gap is handed to the library as r = gap / c, where c is the
\* column width (row height) left by the margins converted in the same call,
\* or by the library's default for a margin not given (c # 0: the ratio is
\* undefined for a cell of size 0).
C2_SpacingConversion ==
    \A k \in SpaceKeys :
        (NonZeroSpace(k) /\ CellOf(k) # Zero) =>
            out.handed.map[k] = RDiv(InInches(out.arg.map[k]), CellOf(k))

\* C2's case: a gap converted with both of its margins given, then with
\* neither, in a grid of two columns.
C2_Witness ==
    /\ NonZeroSpace("wspace")
    /\ out.ncols = 2
    /\ {"left", "right"} \subseteq DOMAIN out.arg.map
    /\ CellOf("wspace") # Zero
    /\ IsFinite(out.handed.map["wspace"])
    /\ NonZeroSpace("hspace")
    /\ out.nrows = 2
    /\ DOMAIN out.arg.map \cap {"bottom", "top"} = {}

\* C3: a spacing given as exactly 0, in inches or millimeters, comes back as
\* exactly 0 and the spacing formula is not evaluated for it.
C3_ZeroSpacingBypass ==
    ConvertedDict =>
        /\ ("wspace" \in DOMAIN out.arg.map /\ out.arg.map["wspace"] = Zero) =>
               (out.handed.map["wspace"] = Zero /\ ~out.evalw)
        /\ ("hspace" \in DOMAIN out.arg.map /\ out.arg.map["hspace"] = Zero) =>
               (out.handed.map["hspace"] = Zero /\ ~out.evalh)

\* C3's case: both spacings 0 in millimeters, with margins given.
C3_Witness ==
    /\ out.op = "subplots_mm"
    /\ ~out.arg.none
    /\ {"left", "right", "wspace", "hspace"} \subseteq DOMAIN out.arg.map
    /\ out.arg.map["wspace"] = Zero
    /\ out.arg.map["hspace"] = Zero
    /\ out.handed.map["wspace"] = Zero

\* C5: the mapping handed to the library has exactly the keys the caller gave,
\* the ratio keys keep their values, and None stays None.
C5_PresenceOnly ==
    out.op \in KwOps =>
        IF out.arg.none THEN out.handed.none
        ELSE /\ ~out.handed.none
             /\ DOMAIN out.handed.map = DOMAIN out.arg.map
             /\ \A k \in DOMAIN out.arg.map \cap RatioKeys :
                    out.handed.map[k] = out.arg.map[k]

\* C5's case: a millimeter conversion of a mapping with one margin, one
\* spacing and one ratio key.
C5_Witness ==
    /\ out.op = "subplots_mm"
    /\ ~out.arg.none
    /\ DOMAIN out.arg.map = {"left", "hspace", "width_ratios"}
    /\ out.handed.map["left"] # out.arg.map["left"]

\* C8 (as claimed): the caller's gridspec_kw mapping holds the same values
\* after a call as it held before.
C8_CallerMappingUnchanged == kw = kw0

\* The mapping g with every dimension present divided by 25.4.
KwOver254(g) ==
    IF g.none THEN g
    ELSE Dict([k \in DOMAIN g.map |->
                 IF k \in DimKeys THEN RDiv(g.map[k], MmPerInch) ELSE g.map[k]])

C6_KeywordPartition ==
    out.op \in ModOps =>
        LET grid == {"sharex", "sharey", "squeeze", "subplot_kw", "gridspec_kw"}
        IN  /\ DOMAIN out.spl_kw = DOMAIN out.kwargs \cap grid
            /\ DOMAIN out.fig_kw = DOMAIN out.kwargs \ grid
            /\ DOMAIN out.spl_kw \cap DOMAIN out.fig_kw = {}
            /\ DOMAIN out.spl_kw \cup DOMAIN out.fig_kw = DOMAIN out.kwargs
            /\ \A k \in DOMAIN out.spl_kw : out.spl_kw[k] = out.kwargs[k]
            /\ \A k \in DOMAIN out.fig_kw : out.fig_kw[k] = out.kwargs[k]
            /\ out.arg.none \/ "gridspec_kw" \in DOMAIN out.spl_kw
            /\ out.figsize = Get(out.fig_kw, "figsize", NoSize)

\* C6's case: the options sharex, figsize and left of the spec's scenario.
C6_Witness ==
    /\ out.op = "subplots_inches()"
    /\ DOMAIN out.kwargs = {"sharex", "figsize", "left"}
    /\ DOMAIN out.spl_kw = {"sharex"}
    /\ DOMAIN out.fig_kw = {"figsize", "left"}

\* C7: add_axes_inches hands the library [left/W, bottom/H, width/W,
\* height/H], and get_position_inches on the axes at that rectangle, the
\* figure size unchanged, returns the absolute rectangle the axes were made
\* from, which converts to the same fractional rectangle again.
C7_RectangleRoundTrip ==
    /\ out.op = "add_axes_inches" =>
           out.frac = <<RDiv(out.rect[1], out.size[1]), RDiv(out.rect[2], out.size[2]),
                        RDiv(out.rect[3], out.size[1]), RDiv(out.rect[4], out.size[2])>>
    /\ (out.op = "get_position_inches" /\ ax.size = out.size) =>
           /\ out.pos = ax.rect
           /\ RectToFrac(out.size, out.pos) = ax.frac

\* C7's case: the position, in inches, of axes made from [10, 10, 50, 20]
\* inches on a figure that kept its size.
C7_Witness ==
    /\ out.op = "get_position_inches"
    /\ ax.size = out.size
    /\ ax.rect = Nums(<<10, 10, 50, 20>>)
    /\ out.pos = Nums(<<10, 10, 50, 20>>)

\* Every dimension of the mapping m is finite.
FiniteMap(m) == \A k \in DOMAIN m \cap DimKeys : IsFinite(m[k])

\* Every number of the size or rectangle t is finite.
AllFinite(t) == \A i \in DOMAIN t : IsFinite(t[i])

\* C9 (as claimed): on a figure of non-zero size, a conversion of finite
\* margins, spacings and rectangles returns finite values: nothing divides by
\* zero.
C9_NoArithmeticFailure ==
    /\ (ConvertedDict /\ FiniteMap(out.arg.map)) => FiniteMap(out.handed.map)
    /\ out.op \in {"add_axes_inches", "add_axes_mm"} => AllFinite(out.frac)
    /\ out.op \in {"get_position_inches", "get_position_mm"} => AllFinite(out.pos)

\* C9 (amended): on a figure of non-zero size, with nrows, ncols >= 1 and
\* finite inputs, the only arithmetic failure is the division by zero of the
\* spacing formula for a non-zero gap whose derived column width (row height)
\* is 0; margins, zero gaps, rectangles and positions are always finite.
C9_FailsOnlyOnZeroCell ==
    /\ (ConvertedDict /\ FiniteMap(out.arg.map)) =>
           \A k \in DOMAIN out.arg.map \cap DimKeys :
               ~IsFinite(out.handed.map[k]) <=>
                   (k \in SpaceKeys /\ out.arg.map[k] # Zero /\ CellOf(k) = Zero)
    /\ out.op \in {"add_axes_inches", "add_axes_mm"} => AllFinite(out.frac)
    /\ out.op \in {"get_position_inches", "get_position_mm"} => AllFinite(out.pos)

\* C9's case: left + right = W with one column, so the column width is 0 and
\* the converted wspace is not finite.
C9_Witness ==
    /\ ConvertedDict
    /\ FiniteMap(out.arg.map)
    /\ out.size[1] # Zero
    /\ out.size[2] # Zero
    /\ "wspace" \in DOMAIN out.arg.map
    /\ CellOf("wspace") = Zero
    /\ ~IsFinite(out.handed.map["wspace"])

\* C10: every conversion uses the size the figure has when the call is made:
\* a method call reads the current size and leaves it alone, and its margins,
\* rectangles and positions are fractions of that size; a module-level call
\* creates its figure at the requested size (or the default) and converts with
\* that size.
C10_CurrentSize ==
    [][out' # out =>
        /\ out'.op \in (KwOps \ ModOps) \cup {"add_axes_inches", "add_axes_mm",
                         "get_position_inches", "get_position_mm", "get_size_mm"} =>
               (out'.size = figsize /\ figsize' = figsize)
        /\ (out'.op \in {"add_gridspec_inches", "subplots_inches"} /\ ~out'.arg.none
              /\ "left" \in DOMAIN out'.arg.map) =>
               RMul(out'.handed.map["left"], figsize[1]) = out'.arg.map["left"]
        /\ out'.op = "add_axes_inches" =>
               \A i \in 1..4 : RMul(out'.frac[i], figsize[2 - (i % 2)]) = out'.rect[i]
        /\ out'.op = "get_position_inches" =>
               \A i \in 1..4 : out'.pos[i] = RMul(ax.frac[i], figsize[2 - (i % 2)])
        /\ out'.op \in ModOps =>
               /\ out'.size = figsize'
               /\ out'.op = "subplots_inches()" => figsize' = FigureSize(out'.figsize)
               /\ out'.op = "subplots_mm()" =>
                      figsize' = FigureSize(IF out'.figsize = NoSize THEN NoSize
                                            ELSE Over254(out'.figsize))
    ]_vars

\* C10's case: a position read after the figure was resized: the axes were
\* made on a figure of another size than the one the call used.
C10_Witness ==
    /\ out.op = "get_position_inches"
    /\ ax.has
    /\ ax.size # out.size
    /\ out.size = figsize

=============================================================================
